---- MODULE Spec2Model ----
(***************************************************************************)
(* Conversational booking assistant (libikasa/ai-assistant-sms).           *)
(*                                                                         *)
(* The repository holds five runnable rewrites of one server file.  The    *)
(* model carries all of them; the variable `variant' names the one that    *)
(* is deployed in a behaviour:                                             *)
(*   "v3"   src/backend/serverv3.js        handleUserMessage, /chat, /lead *)
(*   "p2"   src/unnamed/part_002           handleUserMessage, /chat, /lead *)
(*   "sms1" src/unnamed/part_001 (1-300)   inline /twilio/incoming-sms,    *)
(*                                         /lead-webhook                   *)
(*   "sms3" src/unnamed/part_003 (1-242)   inline handler with sendEmail   *)
(*   "hum3" src/unnamed/part_003 (244-446) handleUserMessage, /lead-webhook*)
(*                                                                         *)
(* Text is a sequence of one-character strings, so that the regular        *)
(* expressions of the handlers are computed and not assumed.               *)
(***************************************************************************)
EXTENDS Integers, Sequences, FiniteSets, TLC

\* ------------------------------------------------------------------ text

Digits == {"0", "1", "2", "3", "4", "5", "6", "7", "8", "9"}

UpperAlpha == <<"A","B","C","D","E","F","G","H","I","J","K","L","M",
                "N","O","P","Q","R","S","T","U","V","W","X","Y","Z">>

LowerAlpha == <<"a","b","c","d","e","f","g","h","i","j","k","l","m",
                "n","o","p","q","r","s","t","u","v","w","x","y","z">>

Letters == {UpperAlpha[i] : i \in DOMAIN UpperAlpha} \cup {LowerAlpha[i] : i \in DOMAIN LowerAlpha}

\* \s of the regular expressions and of String.prototype.trim
IsSpace(c) == c = " "

\* \w of the regular expressions (for \b)
IsWordChar(c) == c \in Letters \/ c \in Digits \/ c = "_"

LowerChar(c) ==
  IF \E i \in DOMAIN UpperAlpha : UpperAlpha[i] = c
  THEN LowerAlpha[CHOOSE i \in DOMAIN UpperAlpha : UpperAlpha[i] = c]
  ELSE c

\* String.prototype.toLowerCase
ToLowerCase(s) == [i \in DOMAIN s |-> LowerChar(s[i])]

\* s.slice(i-1, j) in 1-based inclusive positions; empty when j < i
Slice(s, i, j) == IF j < i THEN << >> ELSE SubSeq(s, i, j)

\* whether the literal w occurs in s at position i
OccursAt(s, w, i) ==
  /\ i >= 1
  /\ i + Len(w) - 1 <= Len(s)
  /\ \A j \in 1..Len(w) : s[i + j - 1] = w[j]

\* String.prototype.includes
Includes(s, w) == \E i \in 1..(Len(s) + 1) : OccursAt(s, w, i)

IsDigitAt(s, i) == i >= 1 /\ i <= Len(s) /\ s[i] \in Digits

\* String.prototype.trim
Trim(s) ==
  IF \A i \in DOMAIN s : IsSpace(s[i]) THEN << >>
  ELSE LET a == CHOOSE i \in DOMAIN s : ~IsSpace(s[i]) /\ \A j \in 1..(i-1) : IsSpace(s[j])
           b == CHOOSE i \in DOMAIN s : ~IsSpace(s[i]) /\ \A j \in (i+1)..Len(s) : IsSpace(s[j])
       IN  SubSeq(s, a, b)

DigitValue(c) ==
  CASE c = "0" -> 0 [] c = "1" -> 1 [] c = "2" -> 2 [] c = "3" -> 3 [] c = "4" -> 4
    [] c = "5" -> 5 [] c = "6" -> 6 [] c = "7" -> 7 [] c = "8" -> 8 [] c = "9" -> 9

\* parseInt(s, 10) and Number(s) of a string of decimal digits
RECURSIVE ParseInt(_)
ParseInt(s) ==
  IF Len(s) = 0 THEN 0
  ELSE 10 * ParseInt(SubSeq(s, 1, Len(s) - 1)) + DigitValue(s[Len(s)])

\* the value of String.prototype.match when nothing matches (falsy, as null is)
NoMatch == << >>

\* the smallest element of a non-empty set of positions
MinOf(S) == CHOOSE x \in S : \A y \in S : x <= y

MaxOf(S) == CHOOSE x \in S : \A y \in S : x >= y

\* n digits at positions i .. i+n-1
DigitsAt(s, i, n) == \A j \in 0..(n - 1) : IsDigitAt(s, i + j)

\* \d{a}\.\d{b}\.\d{4} at position i
DateShapeAt(s, i, a, b) ==
  /\ DigitsAt(s, i, a)
  /\ OccursAt(s, <<".">>, i + a)
  /\ DigitsAt(s, i + a + 1, b)
  /\ OccursAt(s, <<".">>, i + a + 1 + b)
  /\ DigitsAt(s, i + a + b + 2, 4)

\* length of the match of /\d{1,2}\.\d{1,2}\.\d{4}/ anchored at i (greedy, with
\* backtracking), 0 when there is none
DateLenAt(s, i) ==
  CASE DateShapeAt(s, i, 2, 2) -> 10
    [] DateShapeAt(s, i, 2, 1) -> 9
    [] DateShapeAt(s, i, 1, 2) -> 9
    [] DateShapeAt(s, i, 1, 1) -> 8
    [] OTHER -> 0

\* text.match(/\d{1,2}\.\d{1,2}\.\d{4}/)[0]
DateMatch(s) ==
  LET hits == {i \in DOMAIN s : DateLenAt(s, i) > 0}
  IN  IF hits = {} THEN NoMatch
      ELSE LET i == MinOf(hits) IN SubSeq(s, i, i + DateLenAt(s, i) - 1)

\* text.match(/(\d{1,2})(?::(\d{2}))?/): the groups of the first match,
\* [m0, g1, g2] with g2 = NoMatch when the minutes are absent
TimeGroups(s) ==
  LET hits == {i \in DOMAIN s : IsDigitAt(s, i)}
  IN  IF hits = {} THEN [m0 |-> NoMatch, g1 |-> NoMatch, g2 |-> NoMatch]
      ELSE LET i == MinOf(hits)
               a == IF IsDigitAt(s, i + 1) THEN 2 ELSE 1
               mins == OccursAt(s, <<":">>, i + a) /\ DigitsAt(s, i + a + 1, 2)
           IN  [m0 |-> SubSeq(s, i, IF mins THEN i + a + 2 ELSE i + a - 1),
                g1 |-> SubSeq(s, i, i + a - 1),
                g2 |-> IF mins THEN SubSeq(s, i + a + 1, i + a + 2) ELSE NoMatch]

\* text.match(/\d{1,2}(:\d{2})?/)[0]
TimeMatch(s) == TimeGroups(s).m0

\* text.match(/\d+/)[0]
IntMatch(s) ==
  LET hits == {i \in DOMAIN s : IsDigitAt(s, i)}
  IN  IF hits = {} THEN NoMatch
      ELSE LET i == MinOf(hits)
               e == MaxOf({j \in i..Len(s) : \A k \in i..j : IsDigitAt(s, k)})
           IN  SubSeq(s, i, e)

\* [^\s@]
IsAddrChar(c) == ~IsSpace(c) /\ c # "@"

\* first position of the maximal run of [^\s@] that ends at position e
RunStart(s, e) == MinOf({i \in 1..e : \A k \in i..e : IsAddrChar(s[k])})

\* last position of the maximal run of [^\s@] that starts at position b
RunEnd(s, b) == MaxOf({j \in b..Len(s) : \A k \in b..j : IsAddrChar(s[k])})

\* whether /[^\s@]+@[^\s@]+\.[^\s@]+/ matches with its "@" at position q
EmailAt(s, q) ==
  /\ q > 1 /\ q < Len(s)
  /\ s[q] = "@"
  /\ IsAddrChar(s[q - 1])
  /\ IsAddrChar(s[q + 1])
  /\ \E p \in (q + 2)..(RunEnd(s, q + 1) - 1) : s[p] = "."

\* text.match(/[^\s@]+@[^\s@]+\.[^\s@]+/)[0]
EmailMatch(s) ==
  LET hits == {q \in DOMAIN s : EmailAt(s, q)}
  IN  IF hits = {} THEN NoMatch
      ELSE LET q == MinOf(hits) IN SubSeq(s, RunStart(s, q - 1), RunEnd(s, q + 1))

FillerWords == << <<"u","m">>, <<"g","e","g","e","n">>, <<"u","h","r">> >>

\* length of the match of /\b(um|gegen|Uhr)\b/i anchored at i, 0 when none
FillerLenAt(s, i) ==
  LET low == ToLowerCase(s)
      fits(w) == /\ OccursAt(low, w, i)
                 /\ (i = 1 \/ ~IsWordChar(s[i - 1]))
                 /\ (i + Len(w) > Len(s) \/ ~IsWordChar(s[i + Len(w)]))
      ok == {n \in DOMAIN FillerWords : fits(FillerWords[n])}
  IN  IF ok = {} THEN 0 ELSE Len(FillerWords[MinOf(ok)])

\* message.replace(/\b(um|gegen|Uhr)\b/gi, "") from position i on
RECURSIVE StripFrom(_, _)
StripFrom(s, i) ==
  IF i > Len(s) THEN << >>
  ELSE IF FillerLenAt(s, i) > 0 THEN StripFrom(s, i + FillerLenAt(s, i))
  ELSE <<s[i]>> \o StripFrom(s, i + 1)

\* cleanedText of serverv3.js
CleanText(message) == Trim(StripFrom(message, 1))

\* ------------------------------------------------------- sessions, replies

Stages == <<"start", "awaiting_date", "awaiting_time", "awaiting_duration",
            "awaiting_email", "creating", "completed">>

\* the data object of a session: a function from the names of the fields that
\* are set to their values ({} when new)
EmptyData == [f \in {} |-> << >>]

Has(d, f) == f \in DOMAIN d

\* session.data[f] = v
SetField(d, f, v) == [x \in DOMAIN d \cup {f} |-> IF x = f THEN v ELSE d[x]]

\* JavaScript truth of a text field: set and not the empty string
TruthyText(d, f) == Has(d, f) /\ d[f] # << >>

\* JavaScript truth of data.duration: set and not 0
TruthyNumber(d, f) == Has(d, f) /\ d[f] # 0

\* a faulty NewSession: the fresh session is in a stage of its own (C27 must
\* not survive it)
NewSessionUnstaged == [stage |-> "new", data |-> EmptyData]

\* { stage: "start", data: {} }
NewSession == [stage |-> "start", data |-> EmptyData]

\* a reply text: the template that produced it and the values interpolated in it
Reply(id, args) == [id |-> id, args |-> args]

\* let reply = ""
EmptyReply == Reply("empty", << >>)

ReplyContains(r, text) == \E i \in DOMAIN r.args : r.args[i] = text

Termin == <<"t","e","r","m","i","n">>

\* what the stage logic leaves behind: the session, the reply and how the turn
\* goes on ("go": to the creating step; "openai": suspended on the completion
\* call; "throw": an exception left the stage logic)
Step(stage, data, reply, next) == [stage |-> stage, data |-> data, reply |-> reply, next |-> next]

\* ---------------------------------------------- stage logic of the variants

\* a faulty Collect: the branch replaces session.data by an object that holds
\* only the new field (C9 must not survive it)
CollectOnly(s, match, field, value, nextStage, okReply, askReply) ==
  IF match # NoMatch
  THEN Step(nextStage, SetField(EmptyData, field, value), okReply, "go")
  ELSE Step(s.stage, s.data, askReply, "go")

\* a faulty Collect: a message without the field moves the session on all the
\* same (C12 must not survive it)
CollectSkips(s, match, field, value, nextStage, okReply, askReply) ==
  IF match # NoMatch
  THEN Step(nextStage, SetField(s.data, field, value), okReply, "go")
  ELSE Step(nextStage, s.data, askReply, "go")

\* the branch of a stage that extracts one field with `match' and stores `value'
Collect(s, match, field, value, nextStage, okReply, askReply) ==
  IF match # NoMatch
  THEN Step(nextStage, SetField(s.data, field, value), okReply, "go")
  ELSE Step(s.stage, s.data, askReply, "go")

\* session.data.time of part_002 and of handleUserMessage of part_003:
\* `${timeMatch[1]}:${timeMatch[2] || "00"}`
ClockText(g) == g.g1 \o <<":">> \o (IF g.g2 # NoMatch THEN g.g2 ELSE <<"0","0">>)

\* the text a variant matches its regular expressions against
MatchedText(v, message) ==
  CASE v = "v3" -> CleanText(message)
    [] v \in {"sms1", "sms3"} -> ToLowerCase(Trim(message))
    [] OTHER -> ToLowerCase(message)

\* what the tests and regular expressions of a variant find in a message:
\* includes("termin") on the lower-cased text and the four matches
Reading(v, message) ==
  LET text == MatchedText(v, message)
  IN  [termin |-> Includes(ToLowerCase(text), Termin),
       date |-> DateMatch(text),
       time |-> TimeGroups(text),
       int |-> IntMatch(text),
       email |-> EmailMatch(text)]

\* serverv3.js, handleUserMessage, the chain of stage branches
ChainV3(s, r) ==
  CASE s.stage \in {"start", "awaiting_date"} ->
         IF r.termin /\ s.stage = "start"
         THEN Step("awaiting_date", s.data, Reply("askDate", << >>), "go")
         ELSE LET dateMatch == r.date
                  timeMatch == r.time.m0
                  d1 == IF dateMatch # NoMatch THEN SetField(s.data, "date", dateMatch) ELSE s.data
                  d2 == IF timeMatch # NoMatch THEN SetField(d1, "time", timeMatch) ELSE d1
              IN  IF TruthyText(d2, "date") /\ TruthyText(d2, "time")
                  THEN Step("awaiting_duration", d2, Reply("askDuration", << >>), "go")
                  ELSE IF ~TruthyText(d2, "date")
                  THEN Step("awaiting_date", d2, Reply("askDate", << >>), "go")
                  ELSE Step("awaiting_time", d2, Reply("askTime", <<d2["date"]>>), "go")
    [] s.stage = "awaiting_time" ->
         Collect(s, r.time.m0, "time", r.time.m0,
                 "awaiting_duration", Reply("askDuration", << >>), Reply("askTimeAgain", << >>))
    [] s.stage = "awaiting_duration" ->
         Collect(s, r.int, "duration", ParseInt(r.int),
                 "awaiting_email", Reply("askEmail", << >>), Reply("askDurationAgain", << >>))
    [] s.stage = "awaiting_email" ->
         Collect(s, r.email, "email", r.email,
                 "creating", Reply("checking", << >>), Reply("askEmailAgain", << >>))
    [] OTHER -> Step(s.stage, s.data, EmptyReply, "go")

\* a faulty FieldStagesClock: awaiting_time stores the matched text as it
\* stands and forgets the date (C13 must not survive it)
FieldStagesClockRaw(s, r) ==
  CASE s.stage = "awaiting_date" ->
         Collect(s, r.date, "date", r.date,
                 "awaiting_time", Reply("askTime", <<r.date>>), Reply("askDateAgain", << >>))
    [] s.stage = "awaiting_time" ->
         Collect([s EXCEPT !.data = EmptyData], r.time.m0, "time", r.time.m0,
                 "awaiting_duration", Reply("askDuration", << >>), Reply("askTimeAgain", << >>))
    [] s.stage = "awaiting_duration" ->
         Collect(s, r.int, "duration", ParseInt(r.int),
                 "awaiting_email", Reply("askEmail", << >>), Reply("askDurationAgain", << >>))
    [] s.stage = "awaiting_email" ->
         Collect(s, r.email, "email", r.email,
                 "creating", Reply("checking", << >>), Reply("askEmailAgain", << >>))
    [] OTHER -> Step(s.stage, s.data, EmptyReply, "go")

\* the four field stages as part_002 and handleUserMessage of part_003 write
\* them (awaiting_date .. awaiting_email)
FieldStagesClock(s, r) ==
  CASE s.stage = "awaiting_date" ->
         Collect(s, r.date, "date", r.date,
                 "awaiting_time", Reply("askTime", <<r.date>>), Reply("askDateAgain", << >>))
    [] s.stage = "awaiting_time" ->
         Collect(s, r.time.m0, "time", ClockText(r.time),
                 "awaiting_duration", Reply("askDuration", << >>), Reply("askTimeAgain", << >>))
    [] s.stage = "awaiting_duration" ->
         Collect(s, r.int, "duration", ParseInt(r.int),
                 "awaiting_email", Reply("askEmail", << >>), Reply("askDurationAgain", << >>))
    [] s.stage = "awaiting_email" ->
         Collect(s, r.email, "email", r.email,
                 "creating", Reply("checking", << >>), Reply("askEmailAgain", << >>))
    [] OTHER -> Step(s.stage, s.data, EmptyReply, "go")

\* part_002, handleUserMessage, the chain of stage branches.  BOT_NAME is not
\* declared in that file: building the prompt throws a ReferenceError before
\* the completion call is issued.
ChainP2(s, r) ==
  IF s.stage = "start"
  THEN IF r.termin
       THEN Step("awaiting_date", s.data, Reply("askDate", << >>), "go")
       ELSE Step(s.stage, s.data, EmptyReply, "throw")
  ELSE FieldStagesClock(s, r)

\* part_003 (244-446), handleUserMessage, the stage branches before creating
ChainHum3(s, r) ==
  IF s.stage = "start"
  THEN IF r.termin
       THEN Step("awaiting_date", s.data, Reply("askDate", << >>), "go")
       ELSE Step(s.stage, s.data, EmptyReply, "openai")
  ELSE FieldStagesClock(s, r)

\* the date, time and email stages of the inline handlers of part_001 and
\* part_003 (1-242)
FieldStagesSms(s, r) ==
  CASE s.stage = "awaiting_date" ->
         Collect(s, r.date, "date", r.date,
                 "awaiting_time", Reply("askTime", <<r.date>>), Reply("askDateAgain", << >>))
    [] s.stage = "awaiting_time" ->
         Collect(s, r.time.m0, "time", r.time.m0,
                 "awaiting_duration", Reply("askDuration", << >>), Reply("askTimeAgain", << >>))
    [] s.stage = "awaiting_email" ->
         Collect(s, r.email, "email", r.email,
                 "creating", Reply("checking", << >>), Reply("askEmailAgain", << >>))
    [] OTHER -> Step(s.stage, s.data, EmptyReply, "go")

\* a faulty ChainSms1: awaiting_duration asks for the e-mail address although
\* the lead has given one (C14 must not survive it)
ChainSms1AsksEmail(s, r) ==
  CASE s.stage = "start" ->
         IF r.termin
         THEN Step("awaiting_date", s.data, Reply("askDate", << >>), "go")
         ELSE Step(s.stage, s.data, EmptyReply, "openai")
    [] s.stage = "awaiting_duration" ->
         Collect(s, r.int, "duration", ParseInt(r.int),
                 "awaiting_email", Reply("askEmail", << >>), Reply("askDurationAgain", << >>))
    [] OTHER -> FieldStagesSms(s, r)

\* part_001 (1-300), POST /twilio/incoming-sms, the chain of stage branches
ChainSms1(s, r) ==
  CASE s.stage = "start" ->
         IF r.termin
         THEN Step("awaiting_date", s.data, Reply("askDate", << >>), "go")
         ELSE Step(s.stage, s.data, EmptyReply, "openai")
    [] s.stage = "awaiting_duration" ->
         IF r.int # NoMatch
         THEN LET d == SetField(s.data, "duration", ParseInt(r.int))
              IN  IF ~TruthyText(d, "email")
                  THEN Step("awaiting_email", d, Reply("askEmail", << >>), "go")
                  ELSE Step("creating", d, Reply("checking", << >>), "go")
         ELSE Step(s.stage, s.data, Reply("askDurationAgain", << >>), "go")
    [] OTHER -> FieldStagesSms(s, r)

\* part_003 (1-242), POST /twilio/incoming-sms, the chain of stage branches
ChainSms3(s, r) ==
  CASE s.stage = "start" -> Step(s.stage, s.data, EmptyReply, "openai")
    [] s.stage = "awaiting_duration" ->
         Collect(s, r.int, "duration", ParseInt(r.int),
                 "awaiting_email", Reply("askEmail", << >>), Reply("askDurationAgain", << >>))
    [] OTHER -> FieldStagesSms(s, r)

\* the stage branches of variant v on a message read as r
Chain(v, s, r) ==
  CASE v = "v3" -> ChainV3(s, r)
    [] v = "p2" -> ChainP2(s, r)
    [] v = "sms1" -> ChainSms1(s, r)
    [] v = "sms3" -> ChainSms3(s, r)
    [] v = "hum3" -> ChainHum3(s, r)

\* ------------------------------------------------------------ phone keys

\* DEFAULT_COUNTRY, the fallback of process.env.DEFAULT_COUNTRY_CODE
DefaultCountry == <<"+", "4", "9">>

IsDigit(c) == c \in Digits

\* normalizePhone without its phone.trim()
NormalizePhoneUntrimmed(phone) ==
  IF phone = << >> THEN phone
  ELSE IF OccursAt(phone, <<"+">>, 1) THEN phone
       ELSE DefaultCountry \o SelectSeq(phone, IsDigit)

\* normalizePhone without its test for a leading plus sign
NormalizePhoneUnguarded(phone) ==
  IF phone = << >> THEN phone
  ELSE DefaultCountry \o SelectSeq(Trim(phone), IsDigit)

\* normalizePhone
NormalizePhone(phone) ==
  IF phone = << >> THEN phone
  ELSE LET trimmed == Trim(phone)
       IN  IF OccursAt(trimmed, <<"+">>, 1) THEN trimmed
           ELSE DefaultCountry \o SelectSeq(trimmed, IsDigit)

\* ----------------------------------------------------------------- inputs

\* a request field that is absent (undefined, falsy)
NoFrom == << >>

\* the senders of the requests: From of an SMS, userEmail or the caller's IP of
\* a chat request
Froms == { <<"0", "2">> }

Keyword == <<"T","e","r","m","i","n">>

\* the four messages of the booking dialogue, in its order: a date, a time, a
\* duration in minutes and an e-mail address
Dialogue ==
  << <<"T","e","r","m","i","n"," ","a","m"," ","0","8",".","1","1",".","2","0","2","5">>,
     <<"u","m"," ","1","0",":","0","0"," ","U","h","r">>,
     <<"3","0">>,
     <<"A","@","B",".","c","o","m">> >>

\* the texts of the inbound messages
Messages == { Keyword, <<"0">> } \cup { Dialogue[i] : i \in DOMAIN Dialogue }

LeadEmail == <<"l","@","x",".","d","e">>

\* the inbound messages: every text from a sender, one text without a sender
Inbound == (Froms \X Messages) \cup { <<NoFrom, Keyword>> }

\* the JSON bodies of the lead requests (phone and email may be absent)
LeadBodies ==
  [phone : Froms \cup {NoFrom}, firstName : {<<"A">>}, lastName : {<<"B">>},
   email : {<< >>, LeadEmail}]

Variants == {"v3", "p2", "sms1", "sms3", "hum3"}

\* the routes a variant registers for inbound messages
Routes(v) ==
  CASE v \in {"v3", "p2"} -> {"chat", "sms"}
    [] OTHER -> {"sms"}

\* the variants whose inbound-SMS route answers through sendSms
SendsSms(v) == v \in {"sms1", "sms3", "hum3"}

\* the readings of the messages, computed once
Readings == [v \in Variants |-> [m \in Messages |-> Reading(v, m)]]

\* a second sender, for the behaviours in which the requests of two users
\* overlap
OtherFrom == <<"0", "3">>

\* the inbound messages of those behaviours: the first sender with every
\* message, the second with the keyword
InboundOverlap ==
  (Froms \X Messages) \cup {<<OtherFrom, Keyword>>}

\* every key a session can be stored under
AllKeys ==
  LET from == Froms \cup {OtherFrom}
  IN  from \cup {NormalizePhone(f) : f \in from} \cup {NoFrom}

\* requests handled with overlapping execution
MaxInFlight == 1

\* requests that arrive in one behaviour
MaxRequests == 6

\* the same two bounds for the behaviours with overlapping handlers
MaxOverlap == 2

MaxOverlapRequests == 6

Slots == 1..(IF MaxOverlap > MaxInFlight THEN MaxOverlap ELSE MaxInFlight)

\* identities of session objects: one per stored key, one per turn in flight and
\* one for the object a lead request is about to store
ObjIds == 1..(Cardinality(AllKeys) + Cardinality(Slots) + 1)

\* ------------------------------------------------------------------ state

VARIABLES
  variant,   \* the server file that is running
  token,     \* whether token.json exists (loadToken() is not null)
  sessions,  \* the Map sessions: key -> identity of the session object, 0 = no entry
  heap,      \* the session objects: identity -> [stage, data]
  turns,     \* the inbound-message requests in flight: slot -> turn
  last,      \* the request that was answered last, as its caller observed it
  nreq,      \* how many requests have arrived
  calendar   \* the events the server has inserted into the primary calendar

vars == <<variant, token, sessions, heap, turns, last, nreq, calendar>>

\* an identity no object bears
FreeObj == [stage |-> "free", data |-> EmptyData]

\* what a request finds under a key that has no entry
AbsentSession == [stage |-> "absent", data |-> EmptyData]

NoCalls == [ai |-> 0, free |-> 0, create |-> 0, email |-> 0]

\* String.prototype.split on a one-character separator
RECURSIVE Split(_, _)
Split(s, c) ==
  IF \A i \in DOMAIN s : s[i] # c THEN <<s>>
  ELSE LET i == MinOf({j \in DOMAIN s : s[j] = c})
       IN  <<Slice(s, 1, i - 1)>> \o Split(Slice(s, i + 1, Len(s)), c)

\* parseGermanDateTime(dateStr, timeStr): the arguments of new Date(year,
\* month - 1, day, hour, minute), hour and minute as minutes of the day (Date
\* carries them into the following days; equal arguments are equal instants)
ParseGermanDateTime(v, dateStr, timeStr) ==
  LET dmy == Split(dateStr, ".")
      num(q, i) == IF i <= Len(q) THEN ParseInt(q[i]) ELSE 0
      hm == Split(timeStr, ":")
      g == TimeGroups(timeStr)
      hour == IF v \in {"v3", "p2"} THEN num(hm, 1)
              ELSE IF g.m0 # NoMatch THEN ParseInt(g.g1) ELSE 0
      minute == IF v \in {"v3", "p2"} THEN num(hm, 2)
                ELSE IF g.m0 # NoMatch /\ g.g2 # NoMatch THEN ParseInt(g.g2) ELSE 0
  IN  [year |-> num(dmy, 3), month |-> num(dmy, 2) - 1, day |-> num(dmy, 1),
       minutes |-> 60 * hour + minute]

\* start.getTime() + duration * 60000, in part_001 and in the inline handler
\* of part_003 with (duration || 30)
EndOf(v, start, duration) ==
  [start EXCEPT !.minutes = @ + (IF v \in {"sms1", "sms3"} /\ duration = 0 THEN 30
                                 ELSE duration)]

\* no call was made
NoInterval == [start |-> << >>, end |-> << >>]

\* startIso and endIso of the creating step for session.data d
Interval(v, d) ==
  LET start == ParseGermanDateTime(v, IF Has(d, "date") THEN d["date"] ELSE << >>,
                                      IF Has(d, "time") THEN d["time"] ELSE << >>)
  IN  [start |-> start, end |-> EndOf(v, start, IF Has(d, "duration") THEN d["duration"] ELSE 0)]

\* what the calls of a run returned (token: loadToken(), "missing" for null)
NoResults ==
  [token |-> "none", ai |-> "none", free |-> "none", create |-> "none", email |-> "none"]

\* the local variables of one run of the handler, with what it has seen:
\*   pre     the session as the handler got it (or created it)
\*   entry   session.data when the creating step destructured it
\*   changed / changedC   the data fields the stage logic / the creating step
\*           have assigned or removed
\*   alone   no other message of the same key was handled while this run was
\*           in flight
\*   checked / created   startIso and endIso as passed to isSlotFree / createEvent
IdleTurn ==
  [pc |-> "idle", route |-> "", key |-> << >>, obj |-> 0, msg |-> << >>,
   reply |-> EmptyReply, pre |-> AbsentSession, booking |-> FALSE, entry |-> EmptyData,
   changed |-> {}, changedC |-> {}, calls |-> NoCalls, res |-> NoResults,
   alone |-> TRUE, checked |-> NoInterval, created |-> NoInterval]

NoRequest ==
  [kind |-> "none", route |-> "", key |-> << >>, msg |-> << >>, reply |-> EmptyReply,
   pre |-> AbsentSession, post |-> AbsentSession, stored |-> AbsentSession,
   booking |-> FALSE, entry |-> EmptyData, changed |-> {}, changedC |-> {},
   calls |-> NoCalls, res |-> NoResults, fin |-> "none", status |-> "none", sms |-> 0,
   progress |-> 0, checked |-> NoInterval, created |-> NoInterval,
   alone |-> TRUE, before |-> AbsentSession]

\* how far the latest inbound messages have followed the booking dialogue: 1
\* once the handler has taken its first message for a session in awaiting_date
\* with a credential stored, one more for each next message of the dialogue
\* that it took directly after while no gateway call reported a conflict or
\* failed, and 0 otherwise (n: the count before the message of run t)
Followed(n, t, tok) ==
  IF t.obj = 0 THEN 0
  ELSE IF t.msg = Dialogue[1] /\ t.pre.stage = "awaiting_date" /\ tok THEN 1
  ELSE IF /\ n \in 1..(Len(Dialogue) - 1)
          /\ t.msg = Dialogue[n + 1]
          /\ t.res.free \in {"none", "free"}
          /\ t.res.create # "throw"
          /\ t.res.email # "throw"
  THEN n + 1
  ELSE 0

\* the fields in which two data objects differ
Diff(d1, d2) ==
  {f \in DOMAIN d1 \cup DOMAIN d2 : ~(f \in DOMAIN d1 /\ f \in DOMAIN d2 /\ d1[f] = d2[f])}

\* a faulty Alloc: every new session is the same object (C16 must not survive
\* it)
AllocFirst(h) == MinOf(ObjIds)

\* the identity given to a newly created object
Alloc(h) == MinOf({o \in ObjIds : h[o] = FreeObj})

\* objects that neither the Map nor a running handler refers to are gone
Sweep(h, sess, tr) ==
  [o \in ObjIds |->
     IF o \in {sess[k] : k \in AllKeys} \cup {tr[sl].obj : sl \in Slots} THEN h[o] ELSE FreeObj]

\* sessions.get(key), as a value
Stored(sess, h, key) == IF sess[key] = 0 THEN AbsentSession ELSE h[sess[key]]

\* ------------------------------------------------- the handler, step by step

\* where a run of the handler stands after a step: its locals, the objects, and
\* how it ended ("no": suspended on an external call; "saved": it reached the
\* final sessions.set and returned its reply; "returned": an early return;
\* "thrown": the catch of handleUserMessage answered; "crash": the exception
\* reached the route; "rejected": the route refused the request)
Run(t, h, fin) == [t |-> t, h |-> h, fin |-> fin]

\* !date || !time || !duration || !email
MissingField(d) ==
  \/ ~TruthyText(d, "date")
  \/ ~TruthyText(d, "time")
  \/ ~TruthyNumber(d, "duration")
  \/ ~TruthyText(d, "email")

\* !date ? "awaiting_date" : !time ? "awaiting_time" : !duration ? ... : "awaiting_email"
EarliestMissing(d) ==
  IF ~TruthyText(d, "date") THEN "awaiting_date"
  ELSE IF ~TruthyText(d, "time") THEN "awaiting_time"
  ELSE IF ~TruthyNumber(d, "duration") THEN "awaiting_duration"
  ELSE "awaiting_email"

\* the handler reaches `await isSlotFree(...)'
CallIsSlotFree(v, t, h) ==
  Run([t EXCEPT !.pc = "isSlotFree", !.booking = TRUE, !.entry = h[t.obj].data,
                !.calls.free = @ + 1, !.res.token = "loaded",
                !.checked = Interval(v, h[t.obj].data)], h, "no")

\* the block `if (session.stage === "creating") ... else if (... "completed")'
\* that follows the stage branches
CreatingStep(v, tok, t, h) ==
  LET s == h[t.obj]
  IN  CASE v \in {"v3", "p2"} ->
             IF s.stage = "creating"
             THEN IF MissingField(s.data)
                  THEN Run([t EXCEPT !.reply = Reply("missing", << >>), !.booking = TRUE,
                                     !.entry = s.data],
                           [h EXCEPT ![t.obj].stage = EarliestMissing(s.data)], "saved")
                  ELSE CallIsSlotFree(v, t, h)
             ELSE IF s.stage = "completed"
             THEN Run([t EXCEPT !.reply = Reply("already", << >>)], h, "saved")
             ELSE Run(t, h, "saved")
        [] v \in {"sms1", "sms3"} ->
             IF s.stage = "creating"
             THEN IF ~tok
                  THEN Run([t EXCEPT !.reply = Reply("notConnected", << >>), !.booking = TRUE,
                                     !.entry = s.data, !.res.token = "missing"], h, "saved")
                  ELSE CallIsSlotFree(v, t, h)
             ELSE Run(t, h, "saved")
        [] v = "hum3" ->
             \* an else-if of the stage branches: taken on the stage the turn began in
             IF t.pre.stage = "creating"
             THEN IF ~tok
                  THEN Run([t EXCEPT !.reply = Reply("notConnected", << >>), !.booking = TRUE,
                                     !.entry = s.data, !.res.token = "missing"], h, "returned")
                  ELSE CallIsSlotFree(v, t, h)
             ELSE IF t.pre.stage = "completed"
             THEN Run([t EXCEPT !.reply = Reply("already", << >>)], h, "saved")
             ELSE Run(t, h, "saved")

\* a faulty BookingThrow: the catch sends the session back to awaiting_date
\* (C10 must not survive it)
BookingThrowRestart(v, t, h) ==
  IF v \in {"v3", "p2"}
  THEN Run([t EXCEPT !.reply = Reply("error", << >>)],
           [h EXCEPT ![t.obj].stage = "awaiting_date"], "saved")
  ELSE Run([t EXCEPT !.reply = Reply("bookingError", << >>)], h, "saved")

\* an exception of isSlotFree, createEvent or sendEmail during the creating step
BookingThrow(v, t, h) ==
  CASE v \in {"v3", "p2"} ->
         Run([t EXCEPT !.reply = Reply("error", << >>)],
             [h EXCEPT ![t.obj].stage = "awaiting_email"], "saved")
    [] v \in {"sms1", "sms3"} ->
         Run([t EXCEPT !.reply = Reply("bookingError", << >>)], h, "saved")
    [] v = "hum3" ->
         Run([t EXCEPT !.reply = Reply("error", << >>)], h, "thrown")

\* the request arrives: the route and the handler up to the first await
\* (run: where the handler stands; sess: the Map; mid: the objects as the stage
\* branches left them, before the creating step)
Arrive(v, tok, sess, h, route, from, msg) ==
  LET key == IF v \in {"v3", "p2"} THEN from ELSE NormalizePhone(from)
      t0 == [IdleTurn EXCEPT !.pc = "run", !.route = route, !.key = key, !.msg = msg,
                             !.pre = Stored(sess, h, key)]
  IN  CASE v = "p2" /\ route = "sms" ->
             \* normalizePhone is not declared in part_002: ReferenceError
             [run |-> Run([t0 EXCEPT !.key = from, !.pre = Stored(sess, h, from)], h, "crash"),
              sess |-> sess, mid |-> h]
        [] v \in {"sms1", "sms3"} /\ from = NoFrom ->
             [run |-> Run(t0, h, "rejected"), sess |-> sess, mid |-> h]
        [] v \in {"v3", "p2"} /\ ~tok ->
             [run |-> Run([t0 EXCEPT !.reply = Reply("notConnected", << >>),
                                     !.res.token = "missing"], h, "returned"),
              sess |-> sess, mid |-> h]
        [] OTHER ->
             LET obj == IF sess[key] # 0 THEN sess[key] ELSE Alloc(h)
                 h1 == IF sess[key] # 0 THEN h ELSE [h EXCEPT ![obj] = NewSession]
                 sess1 == IF v \in {"v3", "p2", "hum3"} THEN [sess EXCEPT ![key] = obj] ELSE sess
                 st == Chain(v, h1[obj], Readings[v][msg])
                 h2 == [h1 EXCEPT ![obj] = [stage |-> st.stage, data |-> st.data]]
                 t1 == [t0 EXCEPT !.obj = obj, !.pre = h1[obj], !.reply = st.reply,
                                  !.changed = Diff(h1[obj].data, st.data),
                                  !.res.token = IF v \in {"v3", "p2"} THEN "loaded" ELSE "none"]
             IN  [run |-> CASE st.next = "throw" ->
                                 Run([t1 EXCEPT !.reply = Reply("error", << >>)], h2, "thrown")
                            [] st.next = "openai" ->
                                 Run([t1 EXCEPT !.pc = "openai", !.calls.ai = @ + 1], h2, "no")
                            [] OTHER -> CreatingStep(v, tok, t1, h2),
                  sess |-> sess1, mid |-> h2]

AiText == <<"o", "k">>

\* `await openai.chat.completions.create(...)' comes back
AfterOpenAI(v, tok, t, h, result) ==
  LET said == CASE result = "text" -> Reply("ai", <<AiText>>)
                [] result = "nocontent" -> Reply("aiDefault", << >>)
                [] OTHER -> Reply("aiDown", << >>)
      t1 == [t EXCEPT !.reply = said, !.res.ai = result]
  IN  IF result = "throw" /\ v # "hum3" THEN Run([t EXCEPT !.res.ai = result], h, "crash")
      ELSE IF v = "sms3"
      THEN CreatingStep(v, tok, t1, [h EXCEPT ![t.obj].stage = "awaiting_date"])
      ELSE CreatingStep(v, tok, t1, h)

\* a faulty AfterIsSlotFree: a conflict sends the session back to awaiting_date
\* and drops the date (C4 must not survive it)
AfterIsSlotFreeRestart(v, t, h, result) ==
  LET t1 == [t EXCEPT !.res.free = result]
      kept == [f \in DOMAIN h[t.obj].data \ {"date"} |-> h[t.obj].data[f]]
  IN  CASE result = "busy" ->
             Run([t1 EXCEPT !.reply = Reply("busy", << >>)],
                 [h EXCEPT ![t.obj] = [stage |-> "awaiting_date", data |-> kept]], "saved")
        [] result = "free" ->
             Run([t1 EXCEPT !.pc = "createEvent", !.calls.create = @ + 1,
                            !.created = t.checked], h, "no")
        [] OTHER -> BookingThrow(v, t1, h)

\* a faulty AfterIsSlotFree: a conflict check that threw is issued once more
\* (C18 must not survive it)
AfterIsSlotFreeRetries(v, t, h, result) ==
  LET t1 == [t EXCEPT !.res.free = result]
  IN  CASE result = "busy" ->
             Run([t1 EXCEPT !.reply = Reply("busy", << >>)],
                 [h EXCEPT ![t.obj].stage = "awaiting_time"], "saved")
        [] result = "free" ->
             Run([t1 EXCEPT !.pc = "createEvent", !.calls.create = @ + 1,
                            !.created = t.checked], h, "no")
        [] OTHER ->
             IF t.calls.free < 2
             THEN Run([t1 EXCEPT !.calls.free = @ + 1], h, "no")
             ELSE BookingThrow(v, t1, h)

\* `await isSlotFree(...)' comes back
AfterIsSlotFree(v, t, h, result) ==
  LET t1 == [t EXCEPT !.res.free = result]
  IN  CASE result = "busy" ->
             Run([t1 EXCEPT !.reply = Reply("busy", << >>)],
                 [h EXCEPT ![t.obj].stage = "awaiting_time"], "saved")
        [] result = "free" ->
             Run([t1 EXCEPT !.pc = "createEvent", !.calls.create = @ + 1,
                            !.created = t.checked], h, "no")
        [] OTHER -> BookingThrow(v, t1, h)

MeetLink == <<"m">>

\* "kein Link verfuegbar"
NoLinkText == <<"-">>

\* a faulty AfterCreateEvent: the confirmation is sent but the stage is left
\* creating (C3 must not survive it)
AfterCreateEventStays(v, t, h, result) ==
  LET meetLink == IF result = "link" THEN MeetLink ELSE NoLinkText
      t1 == [t EXCEPT !.res.create = result]
      t2 == [t1 EXCEPT !.reply = Reply("confirm", <<t.entry["date"], t.entry["time"],
                                                     t.entry["email"], meetLink>>)]
  IN  IF result = "throw" THEN BookingThrow(v, t1, h) ELSE Run(t2, h, "saved")

\* a faulty AfterCreateEvent: the confirmation never carries the link of the
\* event (C26 must not survive it)
AfterCreateEventDropsLink(v, t, h, result) ==
  LET t1 == [t EXCEPT !.res.create = result]
      t2 == [t1 EXCEPT !.reply = Reply("confirm", <<t.entry["date"], t.entry["time"],
                                                     t.entry["email"], NoLinkText>>)]
  IN  IF result = "throw" THEN BookingThrow(v, t1, h)
      ELSE IF v = "sms3"
      THEN Run([t2 EXCEPT !.pc = "sendEmail", !.calls.email = @ + 1], h, "no")
      ELSE Run(t2, [h EXCEPT ![t.obj].stage = "completed"], "saved")

\* `await createEvent(...)' comes back
AfterCreateEvent(v, t, h, result) ==
  LET meetLink == IF result = "link" THEN MeetLink ELSE NoLinkText
      t1 == [t EXCEPT !.res.create = result]
      t2 == [t1 EXCEPT !.reply = Reply("confirm", <<t.entry["date"], t.entry["time"],
                                                     t.entry["email"], meetLink>>)]
  IN  IF result = "throw" THEN BookingThrow(v, t1, h)
      ELSE IF v = "sms3"
      THEN Run([t2 EXCEPT !.pc = "sendEmail", !.calls.email = @ + 1], h, "no")
      ELSE Run(t2, [h EXCEPT ![t.obj].stage = "completed"], "saved")

\* `await sendEmail(...)' comes back (part_003, 1-242)
AfterSendEmail(v, t, h, result) ==
  LET t1 == [t EXCEPT !.res.email = result]
  IN  IF result = "throw" THEN BookingThrow(v, t1, h)
      ELSE Run(t1, [h EXCEPT ![t.obj].stage = "completed"], "saved")

Init ==
  /\ variant \in Variants
  /\ token = FALSE
  /\ sessions = [k \in AllKeys |-> 0]
  /\ heap = [o \in ObjIds |-> FreeObj]
  /\ turns = [sl \in Slots |-> IdleTurn]
  /\ last = NoRequest
  /\ nreq = 0
  /\ calendar = << >>


\* ---------------------------------------------------------------- actions

\* the outcomes of the reply's delivery: res.json / TwiML always succeed,
\* sendSms throws without a number and may fail at the provider
Deliveries(v, run) ==
  IF SendsSms(v) /\ run.fin \in {"saved", "returned", "thrown"}
  THEN IF run.t.key = NoFrom THEN {FALSE} ELSE BOOLEAN
  ELSE {TRUE}

\* a faulty Conclude: the final sessions.set is skipped when another session
\* object has been stored under the key meanwhile (C17 must not survive it)
ConcludeIfCurrent(sl, run, sess1, mid, arriving) ==
  LET t == run.t
      inC == IF t.obj = 0 THEN {} ELSE Diff(mid[t.obj].data, run.h[t.obj].data)
      met == IF arriving /\ t.obj # 0
             THEN {x \in Slots : turns[x].pc # "idle" /\ turns[x].key = t.key}
             ELSE {}
      others == [x \in Slots |-> IF x \in met THEN [turns[x] EXCEPT !.alone = FALSE]
                                 ELSE turns[x]]
      t2 == [t EXCEPT !.changedC = @ \cup inC,
                      !.alone = IF arriving THEN met = {} ELSE @]
  IN  IF run.fin = "no"
      THEN LET tr == [others EXCEPT ![sl] = t2]
           IN  /\ turns' = tr
               /\ sessions' = sess1
               /\ heap' = Sweep(run.h, sess1, tr)
               /\ UNCHANGED last
      ELSE \E smsOk \in Deliveries(variant, run) :
             LET sess2 == IF run.fin = "saved" /\ sess1[t.key] \in {0, t.obj}
                          THEN [sess1 EXCEPT ![t.key] = t.obj] ELSE sess1
                 tr == [others EXCEPT ![sl] = IdleTurn]
                 h2 == Sweep(run.h, sess2, tr)
             IN  /\ turns' = tr
                 /\ sessions' = sess2
                 /\ heap' = h2
                 /\ last' = [kind |-> "message", route |-> t.route, key |-> t.key, msg |-> t.msg,
                             reply |-> t.reply, pre |-> t.pre,
                             post |-> IF t.obj = 0 THEN t.pre ELSE run.h[t.obj],
                             stored |-> Stored(sess2, h2, t.key),
                             booking |-> t.booking, entry |-> t.entry,
                             changed |-> t.changed, changedC |-> t2.changedC,
                             calls |-> t.calls, res |-> t.res, fin |-> run.fin,
                             status |-> CASE run.fin = "rejected" -> "400"
                                          [] run.fin = "crash" -> "500"
                                          [] ~smsOk -> "500"
                                          [] OTHER -> "200",
                             sms |-> IF SendsSms(variant) /\ smsOk
                                        /\ run.fin \in {"saved", "returned", "thrown"}
                                     THEN 1 ELSE 0,
                             progress |-> Followed(last.progress, t, token),
                             checked |-> t.checked, created |-> t.created,
                             alone |-> t2.alone,
                             before |-> Stored(sess1, run.h, t.key)]

\* an instant as a number of minutes: the arguments of new Date(...) in the
\* order of the instants (months counted with 31 days)
TimeOf(i) == ((i.year * 12 + i.month) * 31 + i.day) * 1440 + i.minutes

\* an event of the calendar: the key of the session it was created for, its
\* interval, its attendee, and whether it belongs to the session now stored
\* under the key (a lead request replaces the session)
Inserted(key, interval, attendeeEmail) ==
  [key |-> key, at |-> interval, attendee |-> attendeeEmail, current |-> TRUE]

\* events.list({ timeMin, timeMax }): the events that end after timeMin and
\* start before timeMax
Listed(cal, interval) ==
  {i \in DOMAIN cal : /\ TimeOf(cal[i].at.end) > TimeOf(interval.start)
                      /\ TimeOf(cal[i].at.start) < TimeOf(interval.end)}

\* the calendar once a lead request has replaced the session of a key: the
\* events stay, they belong to the earlier session
Earlier(cal, key) ==
  [i \in DOMAIN cal |-> IF cal[i].key = key THEN [cal[i] EXCEPT !.current = FALSE]
                        ELSE cal[i]]

\* one step of a handler is done: either it is suspended on its next call, or it
\* has ended, and then the final sessions.set, the delivery of the reply and the
\* HTTP response follow (mid: the objects before the step's creating part;
\* arriving: the step is the arrival of the request, which the runs of the same
\* key that are in flight overlap with)
Conclude(sl, run, sess1, mid, arriving) ==
  LET t == run.t
      inC == IF t.obj = 0 THEN {} ELSE Diff(mid[t.obj].data, run.h[t.obj].data)
      met == IF arriving /\ t.obj # 0
             THEN {x \in Slots : turns[x].pc # "idle" /\ turns[x].key = t.key}
             ELSE {}
      others == [x \in Slots |-> IF x \in met THEN [turns[x] EXCEPT !.alone = FALSE]
                                 ELSE turns[x]]
      t2 == [t EXCEPT !.changedC = @ \cup inC,
                      !.alone = IF arriving THEN met = {} ELSE @]
  IN  IF run.fin = "no"
      THEN LET tr == [others EXCEPT ![sl] = t2]
           IN  /\ turns' = tr
               /\ sessions' = sess1
               /\ heap' = Sweep(run.h, sess1, tr)
               /\ UNCHANGED last
      ELSE \E smsOk \in Deliveries(variant, run) :
             LET sess2 == IF run.fin = "saved" THEN [sess1 EXCEPT ![t.key] = t.obj] ELSE sess1
                 tr == [others EXCEPT ![sl] = IdleTurn]
                 h2 == Sweep(run.h, sess2, tr)
             IN  /\ turns' = tr
                 /\ sessions' = sess2
                 /\ heap' = h2
                 /\ last' = [kind |-> "message", route |-> t.route, key |-> t.key, msg |-> t.msg,
                             reply |-> t.reply, pre |-> t.pre,
                             post |-> IF t.obj = 0 THEN t.pre ELSE run.h[t.obj],
                             stored |-> Stored(sess2, h2, t.key),
                             booking |-> t.booking, entry |-> t.entry,
                             changed |-> t.changed, changedC |-> t2.changedC,
                             calls |-> t.calls, res |-> t.res, fin |-> run.fin,
                             status |-> CASE run.fin = "rejected" -> "400"
                                          [] run.fin = "crash" -> "500"
                                          [] ~smsOk -> "500"
                                          [] OTHER -> "200",
                             sms |-> IF SendsSms(variant) /\ smsOk
                                        /\ run.fin \in {"saved", "returned", "thrown"}
                                     THEN 1 ELSE 0,
                             progress |-> Followed(last.progress, t, token),
                             checked |-> t.checked, created |-> t.created,
                             alone |-> t2.alone,
                             before |-> Stored(sess1, run.h, t.key)]

\* POST /chat and POST /twilio/incoming-sms: an inbound message arrives, while
\* fewer than `most' handlers are in flight and fewer than `many' requests
\* have arrived
ReceiveWithin(most, many, route, from, msg) ==
  /\ Cardinality({sl \in Slots : turns[sl].pc # "idle"}) < most
  /\ route \in Routes(variant)
  /\ route = "chat" => from # NoFrom
  /\ nreq < many
  /\ nreq' = nreq + 1
  /\ LET sl == MinOf({x \in Slots : turns[x].pc = "idle"})
         a == Arrive(variant, token, sessions, heap, route, from, msg)
     IN  Conclude(sl, a.run, a.sess, a.mid, TRUE)
  /\ UNCHANGED <<variant, token, calendar>>

Receive(route, from, msg) == ReceiveWithin(MaxInFlight, MaxRequests, route, from, msg)

\* the same, with handlers that overlap
ReceiveOverlapping(route, from, msg) ==
  ReceiveWithin(MaxOverlap, MaxOverlapRequests, route, from, msg)

\* the completion call of a suspended handler returns or throws
OpenAIReturn(sl, result) ==
  /\ turns[sl].pc = "openai"
  /\ Conclude(sl, AfterOpenAI(variant, token, turns[sl], heap, result), sessions, heap, FALSE)
  /\ UNCHANGED <<variant, token, nreq, calendar>>

\* the conflict check of a suspended handler returns or throws: events.list
\* shows the events of the server that lie in the interval, and it may show
\* events of others
IsSlotFreeReturn(sl, result) ==
  /\ turns[sl].pc = "isSlotFree"
  /\ result = "free" => Listed(calendar, turns[sl].checked) = {}
  /\ Conclude(sl, AfterIsSlotFree(variant, turns[sl], heap, result), sessions, heap, FALSE)
  /\ UNCHANGED <<variant, token, nreq, calendar>>

\* the event creation of a suspended handler returns, the event inserted, or
\* throws
CreateEventReturn(sl, result) ==
  /\ turns[sl].pc = "createEvent"
  /\ Conclude(sl, AfterCreateEvent(variant, turns[sl], heap, result), sessions, heap, FALSE)
  /\ calendar' = IF result = "throw" THEN calendar
                 ELSE Append(calendar,
                             Inserted(turns[sl].key, turns[sl].created,
                                      IF Has(turns[sl].entry, "email")
                                      THEN turns[sl].entry["email"] ELSE << >>))
  /\ UNCHANGED <<variant, token, nreq>>

\* the confirmation e-mail of a suspended handler is sent or fails
SendEmailReturn(sl, result) ==
  /\ turns[sl].pc = "sendEmail"
  /\ Conclude(sl, AfterSendEmail(variant, turns[sl], heap, result), sessions, heap, FALSE)
  /\ UNCHANGED <<variant, token, nreq, calendar>>

\* the data a lead request stores in the fresh session
LeadData(v, body) ==
  IF v = "hum3"
  THEN [firstName |-> body.firstName, lastName |-> body.lastName]
  ELSE [firstName |-> body.firstName, lastName |-> body.lastName, email |-> body.email,
        company |-> << >>]

\* POST /lead-webhook
LeadWebhook(body) ==
  /\ variant \in {"sms1", "sms3", "hum3"}
  /\ nreq < MaxRequests
  /\ nreq' = nreq + 1
  /\ IF body.phone = NoFrom
     THEN /\ last' = [NoRequest EXCEPT !.kind = "lead", !.route = "lead-webhook",
                                       !.fin = "rejected", !.status = "400"]
          /\ UNCHANGED <<sessions, heap, calendar>>
     ELSE \E smsOk \in BOOLEAN :
            LET phone == NormalizePhone(body.phone)
                obj == Alloc(heap)
                fresh == [stage |-> "start", data |-> LeadData(variant, body)]
                sess1 == [sessions EXCEPT ![phone] = obj]
            IN  /\ sessions' = sess1
                /\ heap' = Sweep([heap EXCEPT ![obj] = fresh], sess1, turns)
                /\ calendar' = Earlier(calendar, phone)
                /\ last' = [NoRequest EXCEPT !.kind = "lead", !.route = "lead-webhook",
                                             !.key = phone, !.msg = body.phone,
                                             !.pre = Stored(sessions, heap, phone),
                                             !.post = fresh, !.stored = fresh,
                                             !.fin = IF smsOk THEN "saved" ELSE "thrown",
                                             !.status = IF smsOk THEN "200" ELSE "500",
                                             !.sms = IF smsOk THEN 1 ELSE 0]
  /\ UNCHANGED <<variant, token, turns>>

\* POST /lead
Lead(body) ==
  /\ variant \in {"v3", "p2"}
  /\ nreq < MaxRequests
  /\ nreq' = nreq + 1
  /\ \E smsOk \in (IF body.phone = NoFrom THEN {TRUE} ELSE BOOLEAN) :
       last' = [NoRequest EXCEPT !.kind = "lead", !.route = "lead", !.key = body.phone,
                                 !.msg = body.phone,
                                 !.progress = last.progress,
                                 !.pre = Stored(sessions, heap, body.phone),
                                 !.post = Stored(sessions, heap, body.phone),
                                 !.stored = Stored(sessions, heap, body.phone),
                                 !.fin = IF smsOk THEN "returned" ELSE "thrown",
                                 !.status = IF smsOk THEN "200" ELSE "500",
                                 !.sms = IF smsOk /\ body.phone # NoFrom THEN 1 ELSE 0]
  /\ UNCHANGED <<variant, token, sessions, heap, turns, calendar>>

\* GET /auth/google/callback: the code is exchanged and the token saved
AuthCallback ==
  /\ token' = TRUE
  /\ UNCHANGED <<variant, sessions, heap, turns, last, nreq, calendar>>

Next ==
  \/ \E route \in {"chat", "sms"}, req \in Inbound : Receive(route, req[1], req[2])
  \/ \E sl \in Slots, result \in {"text", "nocontent", "throw"} : OpenAIReturn(sl, result)
  \/ \E sl \in Slots, result \in {"free", "busy", "throw"} : IsSlotFreeReturn(sl, result)
  \/ \E sl \in Slots, result \in {"link", "nolink", "throw"} : CreateEventReturn(sl, result)
  \/ \E sl \in Slots, result \in {"sent", "throw"} : SendEmailReturn(sl, result)
  \/ \E body \in LeadBodies : LeadWebhook(body)
  \/ \E body \in LeadBodies : Lead(body)
  \/ AuthCallback

Spec == Init /\ [][Next]_vars

\* the behaviours in which handlers overlap: serverv3.js and part_001 with the
\* credential stored, two senders, no lead requests
InitOverlap ==
  /\ variant \in {"v3", "sms1"}
  /\ token = TRUE
  /\ sessions = [k \in AllKeys |-> 0]
  /\ heap = [o \in ObjIds |-> FreeObj]
  /\ turns = [sl \in Slots |-> IdleTurn]
  /\ last = NoRequest
  /\ nreq = 0
  /\ calendar = << >>

NextOverlap ==
  \/ \E route \in {"chat", "sms"}, req \in InboundOverlap :
        ReceiveOverlapping(route, req[1], req[2])
  \/ \E sl \in Slots, result \in {"text", "nocontent", "throw"} : OpenAIReturn(sl, result)
  \/ \E sl \in Slots, result \in {"free", "busy", "throw"} : IsSlotFreeReturn(sl, result)
  \/ \E sl \in Slots, result \in {"link", "nolink", "throw"} : CreateEventReturn(sl, result)

SpecOverlap == InitOverlap /\ [][NextOverlap]_vars

\* ------------------------------------------------------------- properties

\* the running file is one of V and the request answered last was an inbound
\* message whose handler ran to its final sessions.set
Saved(V) == variant \in V /\ last.kind = "message" /\ last.fin = "saved"

\* C1: in awaiting_date, a message that contains a DD.MM.YYYY date moves the
\* session to awaiting_time and stores exactly that date as data.date, and the
\* message sets no data.time; a message without such a date leaves the stage
\* awaiting_date
C1_AwaitingDate ==
  (Saved({"v3", "p2", "hum3"}) /\ last.pre.stage = "awaiting_date") =>
     IF DateMatch(last.msg) # NoMatch
     THEN /\ last.post.stage = "awaiting_time"
          /\ Has(last.post.data, "date")
          /\ last.post.data["date"] = DateMatch(last.msg)
          /\ "time" \notin last.changed
     ELSE last.post.stage = "awaiting_date"

\* C2: from a session in awaiting_date, with a credential stored and the gateway
\* reporting free, the four messages of the dialogue (date, time, duration,
\* e-mail address) take the session through awaiting_time, awaiting_duration
\* and awaiting_email to completed, with the four data fields equal to the
\* values of the four messages and the final reply containing the date, the
\* time and the e-mail address
C2_DialogueCompletes ==
  (variant \in {"v3", "p2", "hum3"} /\ last.kind = "message") =>
     /\ last.progress = 1 => last.post.stage = "awaiting_time"
     /\ last.progress = 2 => last.post.stage = "awaiting_duration"
     /\ last.progress = 3 => last.post.stage = "awaiting_email"
     /\ last.progress = 4 =>
          LET date == DateMatch(Dialogue[1])
              time == TimeMatch(Dialogue[2])
              email == EmailMatch(Dialogue[4])
              d == last.post.data
          IN  /\ last.post.stage = "completed"
              /\ {"date", "time", "duration", "email"} \subseteq DOMAIN d
              /\ d["date"] = date /\ d["time"] = time /\ d["email"] = email
              /\ d["duration"] = ParseInt(IntMatch(Dialogue[3]))
              /\ ReplyContains(last.reply, date)
              /\ ReplyContains(last.reply, time)
              /\ ReplyContains(last.reply, email)

\* C3: a turn that enters the creating step with date, time, duration and
\* email present and a credential stored, and for which the gateway reports the
\* slot free and creates the event, leaves the stage completed, and its reply
\* contains the date and the time of the session verbatim
C3_FreeSlotCompletes ==
  (/\ variant \in {"v3", "p2"}
   /\ last.kind = "message"
   /\ last.booking
   /\ ~MissingField(last.entry)
   /\ last.res.token = "loaded"
   /\ last.res.free = "free"
   /\ last.res.create \in {"link", "nolink"}) =>
     /\ last.post.stage = "completed"
     /\ last.stored.stage = "completed"
     /\ ReplyContains(last.reply, last.entry["date"])
     /\ ReplyContains(last.reply, last.entry["time"])

\* a booking went through: the slot was free and the event was created
C3_Booked ==
  /\ variant \in {"v3", "p2"}
  /\ last.kind = "message"
  /\ last.booking
  /\ ~MissingField(last.entry)
  /\ last.res.free = "free"
  /\ last.res.create = "link"
  /\ last.reply.id = "confirm"

\* C4: when the gateway reports the slot taken, the creating step leaves the
\* stage awaiting_time, creates no event, and data.date and data.email are
\* after the turn what they were when the step began
C4_ConflictKeepsData ==
  (/\ variant \in {"v3", "sms1", "p2"}
   /\ last.kind = "message"
   /\ last.res.free = "busy") =>
     /\ last.booking
     /\ last.post.stage = "awaiting_time"
     /\ last.stored = last.post
     /\ last.calls.create = 0
     /\ last.res.create = "none"
     /\ {"date", "email"} \subseteq DOMAIN last.entry
     /\ {"date", "email"} \cap Diff(last.entry, last.post.data) = {}

\* a turn of the inline handler of part_001 met a conflict
C4_Conflict ==
  /\ variant = "sms1"
  /\ last.kind = "message"
  /\ last.res.free = "busy"
  /\ last.reply.id = "busy"

\* C5: a session in completed answers every further message with the same
\* static, non-empty "already booked" reply, stays in completed and keeps every
\* data field
C5_CompletedAbsorbs ==
  (/\ variant \in {"v3", "sms1"}
   /\ last.kind = "message"
   /\ last.pre.stage = "completed") =>
     /\ last.reply = Reply("already", << >>)
     /\ last.post.stage = "completed"
     /\ last.post.data = last.pre.data

\* C6: a creating step that finds one of date, time, duration, email missing
\* puts the session back to the stage of the first missing field (in the order
\* date, time, duration, email), answers with the error message and calls the
\* gateway neither for the conflict check nor for the event
C6_MissingFieldReverts ==
  (/\ variant \in {"v3", "sms1"}
   /\ last.kind = "message"
   /\ last.booking
   /\ last.res.token # "missing"
   /\ MissingField(last.entry)) =>
     /\ last.post.stage = EarliestMissing(last.entry)
     /\ last.reply.id = "missing"
     /\ last.calls.free = 0
     /\ last.calls.create = 0

\* C7: when the conflict check or the event creation throws, the stage after
\* the turn is awaiting_email and the reply is the error message
C7_ExceptionRevertsToEmail ==
  (/\ variant \in {"v3", "sms1", "hum3"}
   /\ last.kind = "message"
   /\ (last.res.free = "throw" \/ last.res.create = "throw")) =>
     /\ last.post.stage = "awaiting_email"
     /\ last.reply.id \in {"error", "bookingError"}

\* C8: a turn that needs the calendar and finds no credential stored answers
\* with the fixed "not connected" reply, makes no gateway call, and leaves the
\* stage what it was before the turn
C8_NoCredentialShortCircuits ==
  (/\ variant \in {"v3", "sms1", "sms3"}
   /\ last.kind = "message"
   /\ last.res.token = "missing") =>
     /\ last.reply = Reply("notConnected", << >>)
     /\ last.calls.free = 0
     /\ last.calls.create = 0
     /\ last.post.stage = last.pre.stage

\* the data fields set in the session stored under key k
FieldsOf(sess, h, k) == DOMAIN Stored(sess, h, k).data

\* the step answers an inbound message of key k: its handler ends
EndsTurn(k) ==
  /\ last'.kind = "message"
  /\ last'.key = k
  /\ \/ nreq' # nreq /\ turns' = turns
     \/ \E sl \in Slots : turns[sl].pc # "idle" /\ turns'[sl].pc = "idle" /\ turns[sl].key = k

\* the step is a lead-webhook request that stores a fresh session under key k
LeadFor(k) ==
  /\ nreq' # nreq
  /\ turns' = turns
  /\ last'.kind = "lead"
  /\ last'.route = "lead-webhook"
  /\ last'.fin # "rejected"
  /\ last'.key = k

\* the step ends a turn of key k whose session object is not the one stored
\* under k any more, and the final sessions.set stores it back
StaleSave(k) ==
  \E sl \in Slots :
    /\ turns[sl].pc # "idle"
    /\ turns'[sl].pc = "idle"
    /\ turns[sl].key = k
    /\ sessions[k] # turns[sl].obj
    /\ sessions'[k] = turns[sl].obj

\* C9 as stated: once a data field is set for a user key it stays set in every
\* later state, whatever inbound messages and lead-webhook requests follow
C9_FieldsStaySet ==
  [][\A k \in AllKeys : FieldsOf(sessions, heap, k) \subseteq FieldsOf(sessions', heap', k)]_vars

\* C9, amended: no step removes a field from a session object; the fields set
\* under a key stay set unless a lead-webhook request replaces the session of
\* the key by a fresh one, or a turn that began on an earlier session object of
\* the key stores that object back when it ends
C9_FieldsStayInSession ==
  [][/\ \A o \in ObjIds :
          (heap[o] # FreeObj /\ heap'[o] # FreeObj) =>
             DOMAIN heap[o].data \subseteq DOMAIN heap'[o].data
     /\ \A k \in AllKeys :
          \/ FieldsOf(sessions, heap, k) \subseteq FieldsOf(sessions', heap', k)
          \/ LeadFor(k)
          \/ StaleSave(k)]_vars

\* a session that began with a lead has collected date, time and duration
C9_Collected ==
  /\ last.kind = "message"
  /\ {"firstName", "date", "time", "duration"} \subseteq DOMAIN last.stored.data

\* the position of a stage in the order of the dialogue
Rank(stage) == CHOOSE i \in DOMAIN Stages : Stages[i] = stage

\* the stage stored under key k is earlier after the step than before it
Backward(k) ==
  /\ sessions[k] # 0
  /\ sessions'[k] # 0
  /\ Rank(Stored(sessions', heap', k).stage) < Rank(Stored(sessions, heap, k).stage)

\* the creating step of the turn that ends met a conflict: awaiting_time
ConflictRevert(k) ==
  /\ EndsTurn(k)
  /\ last'.res.free = "busy"
  /\ Stored(sessions', heap', k).stage = "awaiting_time"

\* the creating step of the turn that ends found a field missing
MissingRevert(k) ==
  /\ EndsTurn(k)
  /\ last'.booking
  /\ MissingField(last'.entry)
  /\ Stored(sessions', heap', k).stage = EarliestMissing(last'.entry)

\* the creating step of the turn that ends caught an exception: awaiting_email
ExceptionRevert(k) ==
  /\ EndsTurn(k)
  /\ (last'.res.free = "throw" \/ last'.res.create = "throw")
  /\ Stored(sessions', heap', k).stage = "awaiting_email"

\* C10 as stated: the stage of a session only advances, except from creating
\* to awaiting_time on a conflict and from creating to the stage of the
\* earliest missing field
C10_StageAdvances ==
  [][\A k \in AllKeys : Backward(k) => (ConflictRevert(k) \/ MissingRevert(k))]_vars

\* the step is taken by a handler of key k that resumes after an await while
\* another message of k was handled in between
OverlappedStep(k) ==
  \E sl \in Slots :
    /\ turns[sl].pc # "idle"
    /\ turns[sl].key = k
    /\ ~turns[sl].alone
    /\ turns'[sl] # turns[sl]

\* C10, amended: the stage of a session only advances, except that the
\* creating step sends it back to awaiting_time on a conflict, to the stage of
\* the earliest missing field, and to awaiting_email when the conflict check
\* or the event creation throws, and that a lead-webhook request puts the key
\* back to start; this for handlers of a key that do not overlap (one that
\* resumes after another message of the key was handled may write an earlier
\* stage back)
C10_StageBackwardOnlyBy ==
  [][\A k \in AllKeys :
       Backward(k) =>
          \/ ConflictRevert(k)
          \/ MissingRevert(k)
          \/ ExceptionRevert(k)
          \/ LeadFor(k) /\ Stored(sessions', heap', k).stage = "start"
          \/ OverlappedStep(k)]_vars

\* the event creation threw and the session is back in awaiting_email
C10_Reverted ==
  /\ last.kind = "message"
  /\ last.res.create = "throw"
  /\ last.pre.stage = "awaiting_email"
  /\ last.stored.stage = "awaiting_email"

\* the request answered last was an inbound message that a handler of one of V
\* took for a session in the given stage, with the credential at hand
Took(V, stage) ==
  /\ variant \in V
  /\ last.kind = "message"
  /\ last.fin \notin {"rejected", "none"}
  /\ last.res.token # "missing"
  /\ last.pre.stage = stage

\* C11: for a session in start, a message that contains "termin" (in any case)
\* moves the stage to awaiting_date and is answered with the date prompt; a
\* message without it is answered with the result of one completion call
C11_StartKeyword ==
  Took({"v3", "p2", "sms3"}, "start") =>
     IF Includes(ToLowerCase(last.msg), Termin)
     THEN /\ last.post.stage = "awaiting_date"
          /\ last.reply.id = "askDate"
     ELSE /\ last.calls.ai = 1
          /\ last.res.ai = "text" => last.reply = Reply("ai", <<AiText>>)
          /\ last.res.ai = "nocontent" => last.reply.id = "aiDefault"

\* what a message holds of the field a stage asks for (NoMatch: nothing)
FieldIn(stage, msg) ==
  CASE stage = "awaiting_date" -> DateMatch(msg)
    [] stage = "awaiting_time" -> TimeMatch(msg)
    [] stage = "awaiting_duration" -> IntMatch(msg)
    [] stage = "awaiting_email" -> EmailMatch(msg)
    [] OTHER -> NoMatch

\* the replies that ask for the field of a stage again
RePrompts(stage) ==
  CASE stage = "awaiting_date" -> {"askDate", "askDateAgain"}
    [] stage = "awaiting_time" -> {"askTimeAgain"}
    [] stage = "awaiting_duration" -> {"askDurationAgain"}
    [] stage = "awaiting_email" -> {"askEmailAgain"}
    [] OTHER -> {}

FieldStageNames == {"awaiting_date", "awaiting_time", "awaiting_duration", "awaiting_email"}

\* C12: in awaiting_date, awaiting_time, awaiting_duration and awaiting_email a
\* message that does not hold the field of the stage is answered with the
\* prompt for that field, makes no external call and leaves the stage as it was
C12_BadInputRePrompts ==
  (/\ Saved({"v3", "p2", "sms1"})
   /\ last.pre.stage \in FieldStageNames
   /\ FieldIn(last.pre.stage, last.msg) = NoMatch)
  => /\ last.reply.id \in RePrompts(last.pre.stage)
     /\ last.calls = NoCalls
     /\ last.post.stage = last.pre.stage
     /\ last.stored.stage = last.pre.stage

\* a message without an e-mail address was answered in awaiting_email
C12_AskedAgain ==
  /\ Saved({"v3", "p2", "sms1"})
  /\ last.pre.stage = "awaiting_email"
  /\ EmailMatch(last.msg) = NoMatch
  /\ last.reply.id = "askEmailAgain"

\* the date of a session is the same after the request answered last as before
DateKept ==
  /\ "date" \notin last.changed \cup last.changedC
  /\ Has(last.pre.data, "date") <=> Has(last.post.data, "date")
  /\ Has(last.pre.data, "date") => last.post.data["date"] = last.pre.data["date"]

\* C13: in awaiting_time a message that contains an hour[:minute] substring
\* stores the first such substring as data.time, moves the session to
\* awaiting_duration and leaves data.date as it was
C13_TimeSubstring ==
  (/\ Saved({"v3", "p2"})
   /\ last.pre.stage = "awaiting_time"
   /\ TimeMatch(last.msg) # NoMatch)
  => /\ Has(last.post.data, "time")
     /\ last.post.data["time"] = TimeMatch(last.msg)
     /\ last.post.stage = "awaiting_duration"
     /\ DateKept

\* C13, amended: as C13, with data.time of part_002 being the hour and the
\* minute of the first hour[:minute] substring joined by ":", the minute "00"
\* when the substring has none
C13_TimeStored ==
  (/\ Saved({"v3", "p2"})
   /\ last.pre.stage = "awaiting_time"
   /\ TimeMatch(last.msg) # NoMatch)
  => /\ Has(last.post.data, "time")
     /\ last.post.data["time"] =
          IF variant = "v3" THEN TimeMatch(last.msg)
          ELSE LET g == TimeGroups(last.msg)
               IN  g.g1 \o <<":">> \o (IF g.g2 = NoMatch THEN <<"0", "0">> ELSE g.g2)
     /\ last.post.stage = "awaiting_duration"
     /\ DateKept

\* part_002 took a message with an hour alone in awaiting_time, the date set
C13_HourAlone ==
  /\ Saved({"p2"})
  /\ last.pre.stage = "awaiting_time"
  /\ Has(last.pre.data, "date")
  /\ TimeMatch(last.msg) # NoMatch
  /\ TimeGroups(last.msg).g2 = NoMatch

\* the request answered last was taken in awaiting_duration by a handler of
\* serverv3.js, part_002 or part_001, and its message contains an integer
DurationGiven ==
  /\ Saved({"v3", "p2", "sms1"})
  /\ last.pre.stage = "awaiting_duration"
  /\ IntMatch(last.msg) # NoMatch

\* C14: in awaiting_duration a message that contains an integer stores the
\* first integer as data.duration and moves the session to awaiting_email,
\* whatever else the data of the session holds
C14_DurationToEmail ==
  DurationGiven =>
     /\ Has(last.post.data, "duration")
     /\ last.post.data["duration"] = ParseInt(IntMatch(last.msg))
     /\ last.post.stage = "awaiting_email"

\* C14, amended: the first integer is stored as data.duration; the session
\* moves to awaiting_email, except in part_001 when data.email is set already:
\* then the stage becomes creating and the creating step runs in the same turn
\* on the data with the new duration
C14_DurationStored ==
  DurationGiven =>
     IF variant = "sms1" /\ TruthyText(last.pre.data, "email")
     THEN /\ last.booking
          /\ Has(last.entry, "duration")
          /\ last.entry["duration"] = ParseInt(IntMatch(last.msg))
          /\ last.reply.id # "askEmail"
     ELSE /\ Has(last.post.data, "duration")
          /\ last.post.data["duration"] = ParseInt(IntMatch(last.msg))
          /\ last.post.stage = "awaiting_email"
          /\ last.reply.id = "askEmail"
          /\ ~last.booking

\* part_001 took a duration for a session that holds the e-mail address of a lead
C14_EmailKnown ==
  /\ DurationGiven
  /\ variant = "sms1"
  /\ TruthyText(last.pre.data, "email")

\* a run of the handler with locals t issued createEvent only after its own
\* isSlotFree returned free, and for the start and end that were checked
CreatedAsChecked(t) ==
  t.calls.create > 0 =>
     /\ t.calls.free > 0
     /\ t.res.free = "free"
     /\ t.created = t.checked

\* what the claim takes for the checked interval: start from the stored date
\* and time, end the stored duration in minutes later
StoredInterval(v, d) ==
  LET start == ParseGermanDateTime(v, d["date"], d["time"])
  IN  [start |-> start, end |-> [start EXCEPT !.minutes = @ + d["duration"]]]

\* C15: in the creating step createEvent is issued only after the conflict
\* check of the same turn returned free, for the interval that was checked,
\* which starts at the stored date and time and ends the stored duration in
\* minutes later; on a busy answer the turn creates no event
C15_CreateAfterFreeCheck ==
  /\ variant \in {"v3", "sms1"} =>
        \A sl \in Slots : turns[sl].pc # "idle" => CreatedAsChecked(turns[sl])
  /\ (variant \in {"v3", "sms1"} /\ last.kind = "message") =>
        /\ CreatedAsChecked(last)
        /\ last.calls.create > 0 => last.created = StoredInterval(variant, last.entry)
        /\ last.res.free = "busy" => last.calls.create = 0 /\ last.created = NoInterval

\* the step is taken by the handler of an inbound message of key k: the
\* message arrives, or one of the handler's external calls returns
MessageStep(k) ==
  \/ \E sl \in Slots :
       /\ turns[sl].pc # "idle"
       /\ turns[sl].key = k
       /\ turns'[sl].pc # turns[sl].pc
  \/ /\ nreq' # nreq
     /\ \E sl \in Slots :
          turns[sl].pc = "idle" /\ turns'[sl].pc # "idle" /\ turns'[sl].key = k
  \/ /\ nreq' # nreq
     /\ \A sl \in Slots : turns[sl].pc = "idle" => turns'[sl].pc = "idle"
     /\ last'.kind = "message"
     /\ last'.key = k

\* C16: under every interleaving of the requests, handling an inbound message
\* of key a leaves the stored stage and data of every other key b as they were
C16_OtherKeysUntouched ==
  [][\A a \in AllKeys, b \in AllKeys :
       (a # b /\ MessageStep(a)) =>
          Stored(sessions', heap', b) = Stored(sessions, heap, b)]_vars

\* a handler of one sender is suspended on an external call while a message of
\* the other sender has just been answered, and both have a session stored
C16_TwoUsers ==
  /\ last.kind = "message"
  /\ \E sl \in Slots :
       /\ turns[sl].pc # "idle"
       /\ turns[sl].key # last.key
       /\ sessions[turns[sl].key] # 0
       /\ sessions[last.key] # 0
       /\ last.stored.stage # "start"

\* C17: when the handling of two messages of one key overlaps, the last write
\* wins: the session stored when a handler has ended with its final
\* sessions.set is the one that handler wrote, whatever another handler stored
\* under the key in between
C17_LastWriteWins ==
  (last.kind = "message" /\ last.fin = "saved") => last.stored = last.post

\* a handler that began in start ended after another handler of the key had
\* stored a session in awaiting_date: its final sessions.set put the key back
\* to the session it began with, the other handler's update is lost
C17_LostUpdate ==
  /\ last.kind = "message"
  /\ last.fin = "saved"
  /\ ~last.alone
  /\ last.before.stage = "awaiting_date"
  /\ last.stored.stage = "start"
  /\ last.stored = last.post

\* a run of the handler with locals t has issued each external call at most
\* once, and none again after it failed
CalledOnce(t) ==
  /\ t.calls.ai <= 1
  /\ t.calls.free <= 1
  /\ t.calls.create <= 1
  /\ t.calls.email <= 1
  /\ t.res.ai = "throw" => t.calls.ai = 1
  /\ t.res.free = "throw" => t.calls.free = 1 /\ t.calls.create = 0
  /\ t.res.create = "throw" => t.calls.create = 1 /\ t.calls.free = 1

\* C18: one inbound message triggers at most one completion call, at most one
\* conflict check and at most one event creation, and a call that failed is
\* not issued again in the same turn
C18_NoRetries ==
  /\ \A sl \in Slots : CalledOnce(turns[sl])
  /\ CalledOnce(last)

\* the conflict check of serverv3.js or of handleUserMessage of part_003 threw
\* and the message was answered
C18_FailedOnce ==
  /\ variant \in {"v3", "hum3"}
  /\ last.kind = "message"
  /\ last.res.free = "throw"
  /\ last.calls.free = 1

\* the request answered last was a lead with a phone number (kept in msg) whose
\* greeting the SMS provider accepted
LeadGreeted(V) ==
  /\ variant \in V
  /\ last.kind = "lead"
  /\ last.msg # NoFrom
  /\ last.fin \in {"saved", "returned"}

\* C19: a lead request that carries a phone number stores a fresh session
\* (stage start, data holding the names of the lead, nothing of a booking)
\* under the normalised phone number, sends one greeting SMS and responds
\* with success
C19_LeadCreatesSession ==
  LeadGreeted({"sms1", "hum3", "v3"}) =>
     /\ last.key = NormalizePhone(last.msg)
     /\ last.stored.stage = "start"
     /\ \E body \in LeadBodies : last.stored.data = LeadData(variant, body)
     /\ last.sms = 1
     /\ last.status = "200"

\* the step answers a webhook request that lacks its required field: a lead
\* without phone number, or an inbound SMS without From
AnswersLacking ==
  /\ nreq' # nreq
  /\ \A sl \in Slots : turns'[sl].pc = turns[sl].pc
  /\ \/ last'.kind = "lead" /\ last'.msg = NoFrom
     \/ last'.kind = "message" /\ last'.route = "sms" /\ last'.key = NoFrom

\* C20: a webhook request that lacks its required field is answered with an
\* HTTP 4xx status, sends no SMS and leaves the session store as it was
C20_LackingFieldRejected ==
  [][AnswersLacking =>
       /\ last'.status = "400"
       /\ last'.sms = 0
       /\ sessions' = sessions
       /\ heap' = heap]_vars

\* ------------------------------------------------- normalizePhone, alone

\* the characters of the phone numbers: the plus sign, two digits, a space
\* and a dash
PhoneChars == {"+", "0", "1", " ", "-"}

\* the longest phone number made of those characters
MaxPhoneLen == 3

\* a national-format number with trunk zero and a separator
NationalNumber == <<"0","1","7","0"," ","1","2","3","4","5","6","7">>

\* the arguments of normalizePhone: every text of at most MaxPhoneLen
\* characters (the empty text is falsy, as undefined is), and the national
\* number
Phones ==
  UNION { [1..n -> PhoneChars] : n \in 0..MaxPhoneLen } \cup {NationalNumber}

\* the files that declare normalizePhone
PhoneVariants == {"sms1", "sms3", "hum3"}

\* a phone number is about to be normalised
InitPhone ==
  /\ variant \in PhoneVariants
  /\ token = FALSE
  /\ sessions = [k \in AllKeys |-> 0]
  /\ heap = [o \in ObjIds |-> FreeObj]
  /\ turns = [sl \in Slots |-> IdleTurn]
  /\ \E phone \in Phones :
        last = [NoRequest EXCEPT !.kind = "phone", !.msg = phone]
  /\ nreq = 0
  /\ calendar = << >>

\* the call normalizePhone(phone); msg is its argument, key its result
NormalizeCall ==
  /\ last.kind = "phone"
  /\ last' = [last EXCEPT !.kind = "normalizePhone",
                          !.key = NormalizePhone(last.msg)]
  /\ UNCHANGED <<variant, token, sessions, heap, turns, nreq, calendar>>

\* sendSms(phone, greeting) of the lead webhook: `if (!to) throw', then
\* toNorm = normalizePhone(to); msg is the key it was given, key is toNorm
SendSmsCall ==
  /\ last.kind = "normalizePhone"
  /\ last.key # << >>
  /\ last' = [last EXCEPT !.kind = "sendSms",
                          !.msg = last.key,
                          !.key = NormalizePhone(last.key)]
  /\ UNCHANGED <<variant, token, sessions, heap, turns, nreq, calendar>>

\* the inbound-SMS handler: the user answers the greeting, From is the number
\* the greeting was sent to, the session key is normalizePhone(From)
IncomingSmsCall ==
  /\ last.kind = "sendSms"
  /\ last' = [last EXCEPT !.kind = "incomingSms",
                          !.msg = last.key,
                          !.key = NormalizePhone(last.key)]
  /\ UNCHANGED <<variant, token, sessions, heap, turns, nreq, calendar>>

NextPhone == NormalizeCall \/ SendSmsCall \/ IncomingSmsCall

SpecPhone == InitPhone /\ [][NextPhone]_vars

\* normalizePhone has returned
Normalized == last.kind = "normalizePhone"

\* C21: normalizePhone with default country code +49 maps the national
\* number "0170 1234567" to +491701234567
C21_NationalToE164 ==
  (Normalized /\ last.msg = NationalNumber) =>
     last.key = <<"+","4","9","1","7","0","1","2","3","4","5","6","7">>

\* the digits of a text, in their order
RECURSIVE DigitsOf(_)
DigitsOf(s) ==
  IF s = << >> THEN << >>
  ELSE (IF Head(s) \in Digits THEN <<Head(s)>> ELSE << >>) \o DigitsOf(Tail(s))

\* the text begins with the plus sign
BeginsWithPlus(s) == Len(s) > 0 /\ s[1] = "+"

\* the text between the white space at its two ends
Inner(s) ==
  LET ink == {i \in DOMAIN s : ~IsSpace(s[i])}
  IN  IF ink = {} THEN << >> ELSE SubSeq(s, MinOf(ink), MaxOf(ink))

\* C22 as stated: normalizePhone returns every input that begins with '+'
\* unchanged, and maps every other non-empty input to the default country
\* code followed by exactly the digits of the input in their order
C22_PlusUnchanged ==
  (Normalized /\ last.msg # << >>) =>
     IF BeginsWithPlus(last.msg) THEN last.key = last.msg
     ELSE last.key = DefaultCountry \o DigitsOf(last.msg)

\* C22: normalizePhone first drops the white space at the two ends of a
\* non-empty input; when the rest begins with '+' it returns the rest
\* unchanged, otherwise the default country code followed by exactly the
\* digits of the input in their order
C22_TrimmedPlusUnchanged ==
  (Normalized /\ last.msg # << >>) =>
     IF BeginsWithPlus(Inner(last.msg)) THEN last.key = Inner(last.msg)
     ELSE last.key = DefaultCountry \o DigitsOf(last.msg)

\* an international number is returned without the white space around it
C22_PaddedPlus ==
  /\ Normalized
  /\ last.msg # << >>
  /\ IsSpace(last.msg[1])
  /\ BeginsWithPlus(last.key)
  /\ Len(last.key) > 1
  /\ last.key = Inner(last.msg)

\* C23: when the calendar event was created and the confirmation e-mail's
\* send throws, the session still becomes completed and the user still
\* receives the confirmation reply
C23_EmailFailureIgnored ==
  (/\ last.kind = "message"
   /\ last.res.create \notin {"none", "throw"}
   /\ last.res.email = "throw") =>
     /\ last.reply.id = "confirm"
     /\ last.post.stage = "completed"
     /\ last.stored.stage = "completed"

\* C24: when the completion call fails during a turn of a session in start,
\* the user still receives a non-empty static apology and the stage of the
\* session remains start
C24_CompletionFailureApology ==
  (/\ last.kind = "message"
   /\ last.pre.stage \in {"absent", "start"}
   /\ last.res.ai = "throw") =>
     /\ last.reply = Reply("aiDown", << >>)
     /\ last.post.stage = "start"
     /\ last.stored.stage \in {"absent", "start"}

\* C25: the first inbound message from a previously unseen user key creates
\* a session for that key: after the turn has been handled, the session
\* store holds an entry for the key, whatever the outcome of the turn
\* (entries are never deleted: a key without entry when the handler ends had
\* none when the message arrived)
C25_FirstMessageCreatesSession ==
  (/\ last.kind = "message"
   /\ last.fin # "rejected"
   /\ last.before.stage = "absent") =>
     last.stored.stage # "absent"

\* the handler of serverv3.js or part_002 created an event
EventCreated ==
  /\ variant \in {"v3", "p2"}
  /\ last.kind = "message"
  /\ last.res.create \in {"link", "nolink"}

\* C26: when an event is created, the confirmation reply embeds the meeting
\* link returned by the gateway, or the fixed "no link available" sentinel
\* when the gateway returns no link, and in both cases the session becomes
\* completed
C26_ConfirmationEmbedsLink ==
  EventCreated =>
     /\ last.reply =
          Reply("confirm",
                <<last.entry["date"], last.entry["time"], last.entry["email"],
                  IF last.res.create = "link" THEN MeetLink ELSE NoLinkText>>)
     /\ MeetLink # NoLinkText
     /\ last.post.stage = "completed"
     /\ last.stored.stage = "completed"

\* an event without link was created and confirmed with the sentinel
C26_NoLinkConfirmed ==
  /\ EventCreated
  /\ last.res.create = "nolink"
  /\ last.reply.id = "confirm"
  /\ ReplyContains(last.reply, NoLinkText)
  /\ last.stored.stage = "completed"

\* the sessions of the Map
StoredSessions == {heap[sessions[k]] : k \in {x \in AllKeys : sessions[x] # 0}}

\* C27: in every reachable state the stage of every stored session is one of
\* start, awaiting_date, awaiting_time, awaiting_duration, awaiting_email,
\* creating, completed
C27_StageInRange ==
  \A s \in StoredSessions :
     s.stage \in {"start", "awaiting_date", "awaiting_time", "awaiting_duration",
                  "awaiting_email", "creating", "completed"}

\* a session is stored in the stage creating
C27_StoredCreating == \E s \in StoredSessions : s.stage = "creating"

\* the events created for the session now stored under key k
EventsOf(k) == {i \in DOMAIN calendar : calendar[i].key = k /\ calendar[i].current}

\* C28: for one user key at most one calendar event is created per booking:
\* between the session's creation (or its reset by a lead request) and any
\* later state the event creation succeeds at most once, also when two
\* messages of the key are handled with overlapping execution and when a step
\* after the creation fails
C28_OneEventPerBooking == \A k \in AllKeys : Cardinality(EventsOf(k)) <= 1

\* ------------------------------------------------ two users, one slot

\* the messages that take a session of serverv3.js from start to the
\* creating step
RaceMessages == {Keyword, Dialogue[1], Dialogue[3], Dialogue[4]}

\* the inbound messages of two users who ask for the same slot
InboundRace == (Froms \cup {OtherFrom}) \X RaceMessages

\* requests that arrive while the two users book
MaxRaceRequests == 8

ReceiveRacing(route, from, msg) ==
  ReceiveWithin(MaxOverlap, MaxRaceRequests, route, from, msg)

\* serverv3.js with the credential stored
InitRace == InitOverlap /\ variant = "v3"

NextRace ==
  \/ \E req \in InboundRace : ReceiveRacing("chat", req[1], req[2])
  \/ \E sl \in Slots, result \in {"free", "busy", "throw"} : IsSlotFreeReturn(sl, result)
  \/ \E sl \in Slots, result \in {"link", "nolink", "throw"} : CreateEventReturn(sl, result)

SpecRace == InitRace /\ [][NextRace]_vars

\* C29: no two events created by the system overlap in time: when turns of
\* two different user keys attempt to book overlapping intervals with
\* overlapping execution, at most one of the two turns creates an event
C29_NoOverlappingEvents ==
  \A i, j \in DOMAIN calendar :
     calendar[i].key # calendar[j].key => i \notin Listed(calendar, calendar[j].at)

\* a handler of key k that was suspended on a gateway call goes on
ResumedStep(k) ==
  \E sl \in Slots :
     /\ turns[sl].pc # "idle"
     /\ turns[sl].key = k
     /\ turns'[sl].pc # turns[sl].pc

\* C30: once the stage of a session has been set to completed, no turn of the
\* same key that was in flight at that moment changes the stage afterwards: a
\* booked session never ends in awaiting_time or awaiting_email
C30_CompletedStays ==
  [][\A k \in AllKeys :
       (Stored(sessions, heap, k).stage = "completed" /\ ResumedStep(k)) =>
          Stored(sessions', heap', k).stage = "completed"]_vars

\* C31: creating is transient: after any turn has finished, with or without
\* error, the stored stage of the session is not creating; the turn that
\* accepts the e-mail address runs the booking attempt itself and ends in
\* completed, awaiting_time, awaiting_email or an earlier missing-field stage
C31_CreatingTransient ==
  (last.kind = "message" /\ last.fin \notin {"none", "rejected"}) =>
     /\ last.stored.stage # "creating"
     /\ (last.pre.stage = "awaiting_email" /\ "email" \in last.changed) =>
           /\ last.booking
           /\ last.post.stage \in {"completed", "awaiting_time", "awaiting_email",
                                   "awaiting_date", "awaiting_duration"}

\* the calendar holds an event created for key k with the values of data d
BookedAs(k, d) ==
  \E i \in DOMAIN calendar :
     /\ calendar[i].key = k
     /\ calendar[i].at = StoredInterval(variant, d)
     /\ calendar[i].attendee = d["email"]

\* C32: whenever the stage of a session is completed, data.date, data.time,
\* data.duration and data.email are all present, and an event creation for
\* that session has succeeded with exactly the stored values: the interval
\* from date, time and duration, the attendee from email
C32_CompletedIsBooked ==
  \A k \in AllKeys :
     Stored(sessions, heap, k).stage = "completed" =>
        LET d == Stored(sessions, heap, k).data
        IN  /\ {"date", "time", "duration", "email"} \subseteq DOMAIN d
            /\ BookedAs(k, d)

\* C33: a session leaves start only through a message that contains the
\* trigger keyword: after any message without the keyword, a session that was
\* in start is still in start and its data is unchanged
C33_StartLeftByKeyword ==
  (Took({"v3", "p2", "sms3"}, "start") /\ ~Includes(ToLowerCase(last.msg), Termin)) =>
     /\ last.post.stage = "start"
     /\ last.post.data = last.pre.data
     /\ last.stored.stage \in {"absent", "start"}

\* C34: a message from which the field of the current stage cannot be
\* extracted leaves the data of the session unchanged: a turn that only
\* re-prompts adds and overwrites no data field
C34_RePromptKeepsData ==
  (/\ Saved({"v3", "p2"})
   /\ last.pre.stage \in FieldStageNames
   /\ FieldIn(last.pre.stage, last.msg) = NoMatch
   /\ last.reply.id \in RePrompts(last.pre.stage))
  => /\ last.changed \cup last.changedC = {}
     /\ last.post.data = last.pre.data
     /\ last.stored.data = last.pre.data

\* ------------------------------------------- a user who follows the dialogue

\* the messages that are valid for a stage: the message of the dialogue that
\* holds the field the stage asks for, and the keyword otherwise (start, no
\* session yet, creating and completed, where the handler takes any message)
ValidFor(stage) ==
  CASE stage = "awaiting_date" -> {Dialogue[1]}
    [] stage = "awaiting_time" -> {Dialogue[2]}
    [] stage = "awaiting_duration" -> {Dialogue[3]}
    [] stage = "awaiting_email" -> {Dialogue[4]}
    [] OTHER -> {Keyword}

\* the routes that reach handleUserMessage (the SMS route of part_002 throws
\* before it calls the handler)
LiveRoutes(v) ==
  CASE v = "v3" -> {"chat", "sms"}
    [] v = "p2" -> {"chat"}
    [] OTHER -> {"sms"}

\* the key of a sender's session
KeyOf(v, from) == IF v \in {"v3", "p2"} THEN from ELSE NormalizePhone(from)

\* requests that are counted while the user follows the dialogue: nreq
\* counts them in rounds of MaxLiveRequests
MaxLiveRequests == 8

\* the user has the answer to the last message and sends a message that is
\* valid for the stage of the session
UserSends(route, from, msg) ==
  /\ \A sl \in Slots : turns[sl].pc = "idle"
  /\ route \in LiveRoutes(variant)
  /\ msg \in ValidFor(Stored(sessions, heap, KeyOf(variant, from)).stage)
  /\ nreq' = IF nreq < MaxLiveRequests THEN nreq + 1 ELSE 1
  /\ \E a \in {Arrive(variant, token, sessions, heap, route, from, msg)} :
        Conclude(MinOf(Slots), a.run, a.sess, a.mid, TRUE)
  /\ UNCHANGED <<variant, token, calendar>>

\* handleUserMessage of serverv3.js, part_002 and part_003 with the credential
\* stored
InitLive ==
  /\ variant \in {"v3", "p2", "hum3"}
  /\ token = TRUE
  /\ sessions = [k \in AllKeys |-> 0]
  /\ heap = [o \in ObjIds |-> FreeObj]
  /\ turns = [sl \in Slots |-> IdleTurn]
  /\ last = NoRequest
  /\ nreq = 0
  /\ calendar = << >>

\* the user sends the next message
UserStep == \E route \in {"chat", "sms"}, from \in Froms, msg \in Messages :
               UserSends(route, from, msg)

\* the gateway answers, and never throws
SlotAnswered(sl) == \E result \in {"free", "busy"} : IsSlotFreeReturn(sl, result)

EventAnswered(sl) == \E result \in {"link", "nolink"} : CreateEventReturn(sl, result)

NextLive ==
  \/ UserStep
  \/ \E sl \in Slots : SlotAnswered(sl)
  \/ \E sl \in Slots : EventAnswered(sl)

\* a request has arrived
Sent == nreq' # nreq

\* the user keeps sending, every gateway call returns, and the conflict check
\* reports the slot free eventually
FairLive ==
  /\ []<><<Sent>>_vars
  /\ \A sl \in Slots :
       /\ WF_vars(SlotAnswered(sl))
       /\ SF_vars(IsSlotFreeReturn(sl, "free"))
       /\ WF_vars(EventAnswered(sl))

SpecLive == InitLive /\ [][NextLive]_vars /\ FairLive

C36_FailedLeadLeavesStore ==
  (/\ last.kind = "lead"
   /\ last.route = "lead-webhook"
   /\ last.status = "500")
  => last.stored = last.pre

\* ---------------------------------------------------------------------------
\* C37: normalizePhone is idempotent with the default country code +49:
\* normalizing its own result returns that result, so sendSms and the
\* inbound-SMS handler recompute the very key the lead webhook stored the
\* session under.
C37_NormalizeIdempotent ==
  /\ Normalized => NormalizePhone(last.key) = last.key
  /\ last.kind \in {"sendSms", "incomingSms"} => last.key = last.msg

\* the national number has gone through the lead webhook, sendSms and the
\* inbound-SMS handler
C37_NationalKeyRecomputed ==
  /\ last.kind = "incomingSms"
  /\ last.msg = <<"+","4","9","0","1","7","0","1","2","3","4","5","6","7">>
  /\ last.key = last.msg

\* ---------------------------------------------------------------------------
\* the same turn in the other server file: handleUserMessage of file v takes
\* message msg for session s stored under key, and the gateway calls it makes
\* return ai, free and create

\* a suspended run goes on when its call returns
Resumed(v, tok, r, ai, free, create) ==
  IF r.fin # "no" THEN r
  ELSE CASE r.t.pc = "openai" -> AfterOpenAI(v, tok, r.t, r.h, ai)
         [] r.t.pc = "isSlotFree" -> AfterIsSlotFree(v, r.t, r.h, free)
         [] r.t.pc = "createEvent" -> AfterCreateEvent(v, r.t, r.h, create)
         [] OTHER -> r

\* the session the run leaves behind
Left(r) == r.h[r.t.obj]

\* the whole turn, from the arrival of the message to the reply
WholeTurn(v, tok, s, key, msg, ai, free, create) ==
  Left(Resumed(v, tok,
         Resumed(v, tok,
           Resumed(v, tok,
             Arrive(v, tok, [k \in AllKeys |-> IF k = key THEN 1 ELSE 0],
                    [o \in ObjIds |-> IF o = 1 THEN s ELSE FreeObj],
                    "chat", key, msg).run,
             ai, free, create),
           ai, free, create),
         ai, free, create))

\* the results a gateway call may have had: the one the turn has seen, or any
\* if the turn did not make the call
ResultsLike(seen, any) == IF seen = "none" THEN any ELSE {seen}

BookingFields == {"date", "time", "duration", "email"}

\* same stage, same date, time, duration and email
SameBooking(s1, s2) ==
  /\ s1.stage = s2.stage
  /\ \A f \in BookingFields :
        /\ Has(s1.data, f) <=> Has(s2.data, f)
        /\ Has(s1.data, f) => s1.data[f] = s2.data[f]

LaterStages ==
  {"awaiting_date", "awaiting_time", "awaiting_duration", "awaiting_email",
   "creating", "completed"}

\* C38: serverv3.js and part_002 implement the same stage machine: from the
\* same session in awaiting_date or a later stage, the same inbound message
\* and the same gateway results lead both to the same stage and to the same
\* date, time, duration and email.
C38_SameStageMachine ==
  (/\ variant = "v3"
   /\ last.kind = "message"
   /\ last.route = "chat"
   /\ last.fin = "saved"
   /\ last.pre.stage \in LaterStages)
  => \E ai \in ResultsLike(last.res.ai, {"text", "nocontent", "throw"}),
        free \in ResultsLike(last.res.free, {"free", "busy", "throw"}),
        create \in ResultsLike(last.res.create, {"link", "nolink", "throw"}) :
       SameBooking(last.stored,
                   WholeTurn("p2", token, last.pre, last.key, last.msg, ai, free, create))

====
